---- MODULE Spec2Model ----
(***************************************************************************)
(* State-machine model of src/App.tsx: the recording / analysis session of *)
(* the App component.  One action stands for one task of the UI event loop *)
(* (a click handler, an effect, a timer callback, a MediaRecorder event or *)
(* the continuation of an await), which JavaScript runs to completion.     *)
(***************************************************************************)
EXTENDS Integers, Sequences, FiniteSets, TLC

\* ------------------------------------------------------------------ bounds
MaxHistory == 2   \* recording cycles are started while the history is shorter

\* ------------------------------------------------------------ value domains
Subjects    == {"Baby", "Dog", "Cat"}
RecordModes == {"audio", "video"}
Statuses    == {"idle", "recording", "processing", "result"}

\* Texts are sequences of characters; " " is the only whitespace character.
\* Texts the user types into the credential input.
Texts ==
  { <<>>, <<" ">>, <<" ", " ">>,
    <<"a">>, <<" ", "a", " ">>,
    <<"b">>, <<"b", " ">> }

Empty == <<>>

RECURSIVE TrimStart(_)
TrimStart(s) == IF s # Empty /\ Head(s) = " " THEN TrimStart(Tail(s)) ELSE s

RECURSIVE TrimEnd(_)
TrimEnd(s) ==
  IF s # Empty /\ s[Len(s)] = " " THEN TrimEnd(SubSeq(s, 1, Len(s) - 1)) ELSE s

\* String.prototype.trim
Trim(s) == TrimEnd(TrimStart(s))

\* The credentials the modal can save.
SavedKeys == {Trim(t) : t \in Texts} \ {Empty}

\* localStorage item 'geminiApiKey'
NoItem == [present |-> FALSE, value |-> Empty]

Item(v) == [present |-> TRUE, value |-> v]

\* Values thrown by translateAudio / analyzeVideoFrames.  A message is a
\* sequence of fragments; String.includes is membership of a fragment.
Thrown ==
  { [isError |-> TRUE,  message |-> <<"fetch failed">>],
    [isError |-> TRUE,  message |-> <<"[400]", "API key not valid", "Please pass a valid API key.">>],
    [isError |-> TRUE,  message |-> <<"API_KEY_INVALID">>],
    [isError |-> FALSE, message |-> <<"API key not valid">>] }

Includes(message, fragment) == \E i \in DOMAIN message : message[i] = fragment

\* User-visible error texts (the state `error`); NoError is null.
NoError      == "null"
GenericError == "analysis failed, try again"
KeyError     == "API key invalid or expired"
DeviceError  == "cannot start microphone or camera"

\* TranslationResult values the remote service returns; confidence in
\* units of 1/200, so that the mean of two confidences is exact.
AudioResults ==
  { [cryType |-> "Hungry", confidence |-> 140, suggestion |-> <<"feed">>, behavior |-> "none"] }

VideoResults ==
  { [cryType |-> "Unknown", confidence |-> 180, suggestion |-> <<"watch">>, behavior |-> "rubbing eyes"] }

NoResult == [cryType |-> "none", confidence |-> 0, suggestion |-> <<>>, behavior |-> "none"]

\* latestResult = null
NoRecord == [subject |-> "none", cryType |-> "none", confidence |-> 0,
             suggestion |-> <<>>, behavior |-> "none"]

\* mediaRecorderRef.current: state "none" is the null reference; onstop tells
\* whether an onstop handler is attached (audio mode attaches one).
NoRecorder == [state |-> "none", onstop |-> FALSE]

\* The variables startRecording closes over, fixed for the whole cycle.
NoClosure == [recordMode |-> "none", subject |-> "none", apiKey |-> Empty]

\* A remote call in flight: which call, and what it was sent with.
NoCall == [kind |-> "none", subject |-> "none", apiKey |-> Empty, frames |-> "empty"]

VARIABLES
  loaded,             \* the startup effect has run
  storage,            \* localStorage item 'geminiApiKey'
  subject, status, recordMode, latestResult, history, error,
  apiKey, isApiKeyModalOpen,
  mediaRecorderRef,   \* the recorder the ref points to
  streamRef,          \* "null" or "live"
  frameIntervalRef,   \* "null" or "active"
  frames,             \* the frames array of the cycle: "empty" or "some"
  closure,            \* subject / recordMode / apiKey captured by startRecording,
                      \* NoClosure while no callback of a cycle is pending
  gum,                \* the getUserMedia promise is pending
  timer,              \* the 5000 ms timeout is pending
  stopEvent,          \* a stop event is queued for a recorder with onstop
  call,               \* the remote call in flight
  videoResult         \* the video result held while the audio call runs

uiVars    == <<subject, status, recordMode, latestResult, history, error>>
credVars  == <<storage, apiKey, isApiKeyModalOpen>>
mediaVars == <<mediaRecorderRef, streamRef, frameIntervalRef, frames>>
asyncVars == <<closure, gum, timer, stopEvent, call, videoResult>>
vars      == <<loaded, uiVars, credVars, mediaVars, asyncVars>>

TypeOK ==
  /\ loaded \in BOOLEAN
  /\ storage \in {NoItem} \cup {Item(k) : k \in SavedKeys}
  /\ subject \in Subjects /\ status \in Statuses /\ recordMode \in RecordModes
  /\ Len(history) <= MaxHistory
  /\ error \in {NoError, GenericError, KeyError, DeviceError}
  /\ apiKey \in SavedKeys \cup {Empty}
  /\ isApiKeyModalOpen \in BOOLEAN
  /\ mediaRecorderRef.state \in {"none", "inactive", "recording"}
  /\ streamRef \in {"null", "live"} /\ frameIntervalRef \in {"null", "active"}
  /\ frames \in {"empty", "some"}
  /\ gum \in BOOLEAN /\ timer \in BOOLEAN /\ stopEvent \in BOOLEAN
  /\ call.kind \in {"none", "audio", "video"}

\* useState initial values and null refs (lines 148-163), before the startup
\* effect; an earlier session left no credential behind, or the credential a.
Init ==
  /\ loaded = FALSE
  /\ storage \in {NoItem, Item(<<"a">>)}
  /\ subject = "Baby" /\ status = "idle" /\ recordMode = "audio"
  /\ latestResult = NoRecord /\ history = <<>> /\ error = NoError
  /\ apiKey = Empty /\ isApiKeyModalOpen = FALSE
  /\ mediaRecorderRef = NoRecorder
  /\ streamRef = "null" /\ frameIntervalRef = "null"
  /\ frames = "empty"
  /\ closure = NoClosure
  /\ gum = FALSE /\ timer = FALSE /\ stopEvent = FALSE
  /\ call = NoCall /\ videoResult = NoResult

\* ------------------------------------------------------------- credential

\* useEffect(..., []) of App: read the stored credential once.
Startup ==
  /\ ~loaded
  /\ loaded' = TRUE
  /\ IF storage.present /\ storage.value # Empty
       THEN apiKey' = storage.value /\ UNCHANGED isApiKeyModalOpen
       ELSE isApiKeyModalOpen' = TRUE /\ UNCHANGED apiKey
  /\ UNCHANGED <<storage, uiVars, mediaVars, asyncVars>>

\* handleSaveApiKey(newApiKey)
HandleSaveApiKey(newApiKey) ==
  /\ apiKey' = newApiKey
  /\ storage' = Item(newApiKey)
  /\ isApiKeyModalOpen' = FALSE
  /\ error' = NoError

\* Mutant: the text is saved as typed unless it is empty.
ModalSaveUntrimmed(key) ==
  /\ loaded /\ isApiKeyModalOpen
  /\ key # Empty
  /\ HandleSaveApiKey(key)
  /\ UNCHANGED <<loaded, subject, status, recordMode, latestResult, history,
                 mediaVars, asyncVars>>

\* ApiKeyModal.handleSave on the text the user typed into the input
\* (onChange, line 67, lets it be any text while the modal is open).
ModalSave(key) ==
  /\ loaded /\ isApiKeyModalOpen
  /\ Trim(key) # Empty
  /\ HandleSaveApiKey(Trim(key))
  /\ UNCHANGED <<loaded, subject, status, recordMode, latestResult, history,
                 mediaVars, asyncVars>>

\* The modal can be dismissed (backdrop click, cancel button) only when a
\* credential is present: hasApiKey = !!currentKey.
ModalDismissible == isApiKeyModalOpen /\ apiKey # Empty

ModalClose ==
  /\ loaded /\ ModalDismissible
  /\ isApiKeyModalOpen' = FALSE
  /\ UNCHANGED <<loaded, storage, apiKey, uiVars, mediaVars, asyncVars>>

\* The settings button in the header.
OpenSettings ==
  /\ loaded
  /\ isApiKeyModalOpen' = TRUE
  /\ UNCHANGED <<loaded, storage, apiKey, uiVars, mediaVars, asyncVars>>

\* ------------------------------------------------------ subject and mode

\* Mutant: selecting a subject leaves the shown result.
SelectSubjectKeepsResult(s) ==
  /\ loaded
  /\ subject' = s
  /\ UNCHANGED <<loaded, status, recordMode, latestResult, history, error,
                 credVars, mediaVars, asyncVars>>

\* SubjectSelector onSelect (line 344)
SelectSubject(s) ==
  /\ loaded
  /\ subject' = s /\ latestResult' = NoRecord
  /\ UNCHANGED <<loaded, status, recordMode, history, error, credVars,
                 mediaVars, asyncVars>>

SetRecordMode(m) ==
  /\ loaded
  /\ recordMode' = m
  /\ UNCHANGED <<loaded, subject, status, latestResult, history, error,
                 credVars, mediaVars, asyncVars>>

\* ------------------------------------------------------------- recording

\* stopMediaTracks: stop the referenced stream's tracks, clear the
\* referenced interval.
StopMediaTracks ==
  /\ streamRef' = "null"
  /\ frameIntervalRef' = "null"

\* Mutant: the second indicator is not looked for.
IsKeyErrorFirstOnly(err) ==
  /\ err.isError
  /\ Includes(err.message, "API key not valid")

\* The test handleApiError applies to the thrown value.
IsKeyError(err) ==
  /\ err.isError
  /\ \/ Includes(err.message, "API key not valid")
     \/ Includes(err.message, "API_KEY_INVALID")

\* handleApiError(err)
HandleApiError(err) ==
  /\ IF IsKeyError(err)
       THEN /\ storage' = NoItem
            /\ apiKey' = Empty
            /\ isApiKeyModalOpen' = TRUE
            /\ error' = KeyError
       ELSE /\ UNCHANGED <<storage, apiKey, isApiKeyModalOpen>>
            /\ error' = GenericError
  /\ status' = "idle"

\* Mutant: the button is not disabled while the credential is missing.
ButtonEnabledWithoutKey == status # "processing"

\* Mutant: the button is not disabled while processing.
ButtonEnabledWhileProcessing == apiKey # Empty

\* The record button (lines 359-364): enabled unless processing or no
\* credential; it starts a recording unless one is running.
RecordButtonEnabled == status # "processing" /\ apiKey # Empty

ButtonStarts == RecordButtonEnabled /\ status # "recording"

\* Mutant: the button stops whatever the status.
ButtonStopsAnyStatus == RecordButtonEnabled

ButtonStops == RecordButtonEnabled /\ status = "recording"

\* startRecording up to its await: the state updates, the values the
\* closure captures, and the getUserMedia request.
StartRecording ==
  /\ loaded /\ ButtonStarts
  /\ Len(history) < MaxHistory
  /\ error' = NoError
  /\ status' = "recording"
  /\ latestResult' = NoRecord
  /\ closure' = [recordMode |-> recordMode, subject |-> subject, apiKey |-> apiKey]
  /\ gum' = TRUE
  /\ UNCHANGED <<loaded, subject, recordMode, history, credVars, mediaVars,
                 timer, stopEvent, call, videoResult>>

\* catch block of startRecording
StartFailed ==
  /\ error' = DeviceError
  /\ status' = "idle"

\* getUserMedia rejects (permission denied, no device).
GumReject ==
  /\ gum
  /\ gum' = FALSE
  /\ StartFailed
  /\ closure' = NoClosure
  /\ UNCHANGED <<loaded, subject, recordMode, latestResult, history, credVars,
                 mediaVars, timer, stopEvent, call, videoResult>>

\* What can happen once the stream is there: everything works, the
\* MediaRecorder constructor throws, or MediaRecorder.start throws.
SetupOutcomes == {"ok", "constructorThrows", "startThrows"}

\* The recorder the ref points to after the set-up code ran.
RecorderAfterSetup(outcome, hasOnstop) ==
  CASE outcome = "ok"          -> [state |-> "recording", onstop |-> hasOnstop]
    [] outcome = "startThrows" -> [state |-> "inactive",  onstop |-> hasOnstop]
    [] OTHER                   -> mediaRecorderRef

\* Audio branch of startRecording after the await (lines 215-240).
AudioSetup(outcome) ==
  /\ mediaRecorderRef' = RecorderAfterSetup(outcome, TRUE)
  /\ IF outcome = "ok" THEN UNCHANGED <<error, status>> ELSE StartFailed
  /\ UNCHANGED <<frameIntervalRef, frames, timer>>

\* Video branch of startRecording after the await (lines 241-304): the
\* interval is set before the recorder is made, the timeout after it started.
VideoSetup(outcome) ==
  /\ frames' = "empty"
  /\ frameIntervalRef' = "active"
  /\ mediaRecorderRef' = RecorderAfterSetup(outcome, FALSE)
  /\ timer' = (outcome = "ok")
  /\ IF outcome = "ok" THEN UNCHANGED <<error, status>> ELSE StartFailed

\* getUserMedia resolves: the rest of startRecording runs.
GumResolve(outcome) ==
  /\ gum
  /\ gum' = FALSE
  /\ streamRef' = "live"
  /\ IF closure.recordMode = "audio" THEN AudioSetup(outcome) ELSE VideoSetup(outcome)
  /\ closure' = IF outcome = "ok" THEN closure ELSE NoClosure
  /\ UNCHANGED <<loaded, subject, recordMode, latestResult, history, credVars,
                 stopEvent, call, videoResult>>

\* MediaRecorder.stop(): a recording recorder becomes inactive and a stop
\* event is queued; on an inactive recorder the call does nothing, or, in
\* browsers that follow the earlier specification, throws InvalidStateError.
StopOutcomes(r) ==
  IF r.state = "inactive" THEN {"ignored", "throws"} ELSE {"stopped"}

StoppedRecorder(r) == IF r.state = "recording" THEN [r EXCEPT !.state = "inactive"] ELSE r

StopQueued(r) == r.state = "recording" /\ r.onstop

\* Mutant: stopping also releases the stream and clears the interval.
StopRecordingReleasing(outcome) ==
  /\ loaded /\ ButtonStops
  /\ IF recordMode = "audio" /\ mediaRecorderRef.state # "none"
       THEN /\ outcome \in StopOutcomes(mediaRecorderRef)
            /\ mediaRecorderRef' = StoppedRecorder(mediaRecorderRef)
            /\ stopEvent' = (stopEvent \/ StopQueued(mediaRecorderRef))
       ELSE /\ outcome = "stopped"
            /\ UNCHANGED <<mediaRecorderRef, stopEvent>>
  /\ StopMediaTracks
  /\ status' = IF outcome = "throws" THEN status ELSE "processing"
  /\ UNCHANGED <<loaded, subject, recordMode, latestResult, history, error,
                 credVars, frames, closure, gum, timer, call, videoResult>>

\* stopRecording; when stop() throws, setStatus is not reached.
StopRecording(outcome) ==
  /\ loaded /\ ButtonStops
  /\ IF recordMode = "audio" /\ mediaRecorderRef.state # "none"
       THEN /\ outcome \in StopOutcomes(mediaRecorderRef)
            /\ mediaRecorderRef' = StoppedRecorder(mediaRecorderRef)
            /\ stopEvent' = (stopEvent \/ StopQueued(mediaRecorderRef))
       ELSE /\ outcome = "stopped"
            /\ UNCHANGED <<mediaRecorderRef, stopEvent>>
  /\ status' = IF outcome = "throws" THEN status ELSE "processing"
  /\ UNCHANGED <<loaded, subject, recordMode, latestResult, history, error,
                 credVars, streamRef, frameIntervalRef, frames, closure, gum,
                 timer, call, videoResult>>

\* The setInterval callback (lines 246-257): it samples a frame when the
\* video and canvas elements are mounted (line 352).
SampleFrame ==
  /\ frameIntervalRef = "active"
  /\ recordMode = "video" /\ status = "recording"
  /\ frames' = "some"
  /\ UNCHANGED <<loaded, uiVars, credVars, mediaRecorderRef, streamRef,
                 frameIntervalRef, asyncVars>>

\* --------------------------------------------------------------- analysis

\* Mutant: the record gets the subject selected when the result arrives.
NewRecordCurrentSubject(subj, result) ==
  [subject |-> subject, cryType |-> result.cryType,
   confidence |-> result.confidence, suggestion |-> result.suggestion,
   behavior |-> result.behavior]

\* newRecord = { id, timestamp, subject, ...result }; the id and the
\* timestamp, both readings of the clock, are left out of the record.
NewRecord(subj, result) ==
  [subject |-> subj, cryType |-> result.cryType,
   confidence |-> result.confidence, suggestion |-> result.suggestion,
   behavior |-> result.behavior]

\* Mutant: the label and the behavior come from the more confident result.
CombinedByConfidence(videoRes, audioRes) ==
  LET best == IF videoRes.confidence > audioRes.confidence
                THEN videoRes ELSE audioRes
  IN  [cryType    |-> best.cryType,
       confidence |-> (audioRes.confidence + videoRes.confidence) \div 2,
       suggestion |-> videoRes.suggestion \o <<" ">> \o audioRes.suggestion,
       behavior   |-> best.behavior]

\* Mutant: the confidence of the audio result is kept.
CombinedAudioConfidence(videoRes, audioRes) ==
  [cryType    |-> audioRes.cryType,
   confidence |-> audioRes.confidence,
   suggestion |-> videoRes.suggestion \o <<" ">> \o audioRes.suggestion,
   behavior   |-> videoRes.behavior]

\* combinedResult of the video path
CombinedResult(videoRes, audioRes) ==
  [cryType    |-> audioRes.cryType,
   confidence |-> (audioRes.confidence + videoRes.confidence) \div 2,
   suggestion |-> videoRes.suggestion \o <<" ">> \o audioRes.suggestion,
   behavior   |-> videoRes.behavior]

\* Mutant: the new record is put last.
AppendLast(record, prev) == prev \o <<record>>

\* setHistory(prev => [newRecord, ...prev])
Prepend(record, prev) == <<record>> \o prev

\* Mutant: the record is stored twice.
ShowRecordTwice(record) ==
  /\ latestResult' = record
  /\ history' = Prepend(record, Prepend(record, history))
  /\ status' = "result"

\* setLatestResult(newRecord); setHistory(...); setStatus('result')
ShowRecord(record) ==
  /\ latestResult' = record
  /\ history' = Prepend(record, history)
  /\ status' = "result"

\* The request translateAudio(audioBlob, subject, apiKey) of the cycle.
AudioCall == [kind |-> "audio", subject |-> closure.subject,
              apiKey |-> closure.apiKey, frames |-> "empty"]

\* The request analyzeVideoFrames(frames, subject, apiKey) of the cycle.
VideoCall == [kind |-> "video", subject |-> closure.subject,
              apiKey |-> closure.apiKey, frames |-> frames]

\* The audio recorder's onstop handler up to its await (lines 221-225).
OnStop ==
  /\ stopEvent
  /\ stopEvent' = FALSE
  /\ status' = "processing"
  /\ call' = AudioCall
  /\ UNCHANGED <<loaded, subject, recordMode, latestResult, history, error,
                 credVars, mediaVars, closure, gum, timer, videoResult>>

\* Audio mode: translateAudio resolves (lines 226-234, 238).
AudioReturn(result) ==
  /\ call.kind = "audio" /\ closure.recordMode = "audio"
  /\ call' = NoCall
  /\ ShowRecord(NewRecord(closure.subject, result))
  /\ StopMediaTracks
  /\ closure' = NoClosure
  /\ UNCHANGED <<loaded, subject, recordMode, error, credVars, mediaRecorderRef,
                 frames, gum, timer, stopEvent,
                 videoResult>>

\* Audio mode: translateAudio rejects (lines 235-238).
AudioFail(err) ==
  /\ call.kind = "audio" /\ closure.recordMode = "audio"
  /\ call' = NoCall
  /\ HandleApiError(err)
  /\ StopMediaTracks
  /\ closure' = NoClosure
  /\ UNCHANGED <<loaded, subject, recordMode, latestResult, history,
                 mediaRecorderRef, frames,
                 gum, timer, stopEvent, videoResult>>

\* The setTimeout callback up to its first await (lines 267-274); when
\* stop() throws, the callback ends there.
TimerFire(outcome) ==
  /\ timer
  /\ timer' = FALSE
  /\ outcome \in StopOutcomes(mediaRecorderRef)
  /\ IF outcome = "throws"
       THEN UNCHANGED <<mediaRecorderRef, stopEvent, streamRef,
                        frameIntervalRef, status, call>>
       ELSE /\ mediaRecorderRef' = StoppedRecorder(mediaRecorderRef)
            /\ stopEvent' = (stopEvent \/ StopQueued(mediaRecorderRef))
            /\ StopMediaTracks
            /\ status' = "processing"
            /\ call' = VideoCall
  /\ UNCHANGED <<loaded, subject, recordMode, latestResult, history, error,
                 credVars, frames, closure, gum, videoResult>>

\* Video mode: analyzeVideoFrames resolves, translateAudio is called
\* (lines 274-278).
VideoReturn(result) ==
  /\ call.kind = "video"
  /\ videoResult' = result
  /\ call' = AudioCall
  /\ UNCHANGED <<loaded, uiVars, credVars, mediaVars, closure, gum, timer,
                 stopEvent>>

\* Mutant: the audio call is issued although the video call failed.
VideoFailThenAudio(err) ==
  /\ call.kind = "video"
  /\ call' = AudioCall
  /\ UNCHANGED <<loaded, uiVars, credVars, mediaVars, closure, gum, timer,
                 stopEvent, videoResult>>

\* Video mode: analyzeVideoFrames rejects (lines 299-300).
VideoFail(err) ==
  /\ call.kind = "video"
  /\ call' = NoCall
  /\ HandleApiError(err)
  /\ closure' = NoClosure
  /\ UNCHANGED <<loaded, subject, recordMode, latestResult, history, mediaVars,
                 gum, timer, stopEvent, videoResult>>

\* Video mode: translateAudio resolves (lines 278-297).
VideoAudioReturn(result) ==
  /\ call.kind = "audio" /\ closure.recordMode = "video"
  /\ call' = NoCall
  /\ videoResult' = NoResult
  /\ ShowRecord(NewRecord(closure.subject, CombinedResult(videoResult, result)))
  /\ closure' = NoClosure
  /\ UNCHANGED <<loaded, subject, recordMode, error, credVars, mediaVars,
                 gum, timer, stopEvent>>

\* Mutant: when the audio call fails, the video result is shown on its own.
VideoAudioFailShowsVideo(err) ==
  /\ call.kind = "audio" /\ closure.recordMode = "video"
  /\ call' = NoCall
  /\ videoResult' = NoResult
  /\ latestResult' = NewRecord(closure.subject, videoResult)
  /\ HandleApiError(err)
  /\ closure' = NoClosure
  /\ UNCHANGED <<loaded, subject, recordMode, history, mediaVars,
                 gum, timer, stopEvent>>

\* Video mode: translateAudio rejects (lines 299-300).
VideoAudioFail(err) ==
  /\ call.kind = "audio" /\ closure.recordMode = "video"
  /\ call' = NoCall
  /\ videoResult' = NoResult
  /\ HandleApiError(err)
  /\ closure' = NoClosure
  /\ UNCHANGED <<loaded, subject, recordMode, latestResult, history, mediaVars,
                 gum, timer, stopEvent>>

\* ---------------------------------------------------------- specification

StopPressed == \E o \in {"stopped", "ignored", "throws"} : StopRecording(o)

TimerFires == \E o \in {"stopped", "ignored", "throws"} : TimerFire(o)

GumSettle == GumReject \/ \E o \in SetupOutcomes : GumResolve(o)

CallSettle ==
  \/ \E r \in AudioResults : AudioReturn(r)
  \/ \E e \in Thrown : AudioFail(e)
  \/ \E r \in VideoResults : VideoReturn(r)
  \/ \E e \in Thrown : VideoFail(e)
  \/ \E r \in AudioResults : VideoAudioReturn(r)
  \/ \E e \in Thrown : VideoAudioFail(e)

Next ==
  \/ Startup
  \/ \E key \in Texts : ModalSave(key)
  \/ ModalClose
  \/ OpenSettings
  \/ \E s \in Subjects : SelectSubject(s)
  \/ \E m \in RecordModes : SetRecordMode(m)
  \/ StartRecording
  \/ StopPressed
  \/ SampleFrame
  \/ GumSettle
  \/ OnStop
  \/ TimerFires
  \/ CallSettle

Spec == Init /\ [][Next]_vars

\* The browser settles every getUserMedia request, delivers queued events,
\* fires pending timers, and every remote call returns or fails.
FairSpec ==
  /\ Spec
  /\ WF_vars(GumSettle)
  /\ WF_vars(OnStop)
  /\ WF_vars(TimerFires)
  /\ WF_vars(CallSettle)

\* ------------------------------------------- the merge of the video path

\* The interval [0,1] of confidences, in units of 1/200.
ConfidenceRange == 0 .. 200

\* Results analyzeVideoFrames may return: confidences 0.90, 0, 1 and 0.70
\* (every confidence a multiple of 1/100, so that a mean is a multiple of
\* 1/200), labels, advices and behaviors that differ from result to result.
VideoInputs ==
  VideoResults \cup
  { [cryType |-> "Pain",   confidence |-> 0,   suggestion |-> <<"check">>, behavior |-> "arching back"],
    [cryType |-> "Hungry", confidence |-> 200, suggestion |-> <<"feed">>,  behavior |-> "sucking fist"],
    [cryType |-> "Tired",  confidence |-> 140, suggestion |-> <<>>,        behavior |-> "none"] }

\* Results translateAudio may return: confidences 0.70, 1, 0 and 0.90.
AudioInputs ==
  AudioResults \cup
  { [cryType |-> "Tired",   confidence |-> 200, suggestion |-> <<"rock">>,  behavior |-> "none"],
    [cryType |-> "Unknown", confidence |-> 0,   suggestion |-> <<"watch">>, behavior |-> "none"],
    [cryType |-> "Pain",    confidence |-> 180, suggestion |-> <<"check">>, behavior |-> "crying loudly"] }

\* A video cycle at the moment its timeout handler has issued the video
\* call (first session, credential a, any subject, frames sampled or not).
MergeInit ==
  /\ loaded = TRUE
  /\ storage = Item(<<"a">>) /\ apiKey = <<"a">> /\ isApiKeyModalOpen = FALSE
  /\ subject \in Subjects /\ status = "processing" /\ recordMode = "video"
  /\ latestResult = NoRecord /\ history = <<>> /\ error = NoError
  /\ mediaRecorderRef = [state |-> "inactive", onstop |-> FALSE]
  /\ streamRef = "null" /\ frameIntervalRef = "null"
  /\ frames \in {"empty", "some"}
  /\ closure = [recordMode |-> "video", subject |-> subject, apiKey |-> apiKey]
  /\ gum = FALSE /\ timer = FALSE /\ stopEvent = FALSE
  /\ call = VideoCall /\ videoResult = NoResult

\* The two awaits of the timeout handler resolve, with any results.
MergeVideoReturn == \E v \in VideoInputs : VideoReturn(v)

MergeAudioReturn == \E a \in AudioInputs : VideoAudioReturn(a)

MergeNext == MergeVideoReturn \/ MergeAudioReturn

MergeSpec == MergeInit /\ [][MergeNext]_vars

\* ------------------------------------------------------------ consistency

\* One cycle at a time: outside a cycle no callback is pending, so the single
\* closure, call and timer of the model stand for all there are.
OneCycle ==
  /\ status \in {"idle", "result"} =>
       /\ ~gum /\ ~timer /\ ~stopEvent /\ call = NoCall
       /\ mediaRecorderRef.state # "recording"
       /\ closure = NoClosure
  /\ status \in {"recording", "processing"} => closure # NoClosure
  /\ stopEvent => closure.recordMode = "audio"
  /\ timer => closure.recordMode = "video"
  /\ Cardinality({x \in {"gum", "timer", "stop", "call"} :
        \/ x = "gum" /\ gum
        \/ x = "timer" /\ timer
        \/ x = "stop" /\ stopEvent
        \/ x = "call" /\ call # NoCall}) <= 1

\* ------------------------------------------------------------------ claims

\* A step in which the last remote call of a cycle returns without an error
\* being reported, and a step in which a cycle ends in an error.
AnalysisSucceeds == call.kind = "audio" /\ call' = NoCall /\ error' = NoError

CycleFails == status \in {"recording", "processing"} /\ status' = "idle"

\* C1: a cycle whose analysis completes successfully prepends exactly one
\* record, which is then the first element of the history (and the latest
\* result) and ends the cycle; a cycle that ends in a device error or an
\* analysis failure adds none; no other step adds a record.
C1_OneRecordPerCompletedCycle ==
  [][ /\ AnalysisSucceeds =>
           /\ Len(history') = Len(history) + 1
           /\ Tail(history') = history
           /\ Head(history') = latestResult' /\ latestResult' # NoRecord
           /\ status' = "result"
      /\ CycleFails => history' = history
      /\ history' # history => AnalysisSucceeds ]_vars

C1_Witness ==
  /\ status = "result" /\ Len(history) = 2
  /\ history[1] = latestResult /\ history[1] # history[2]

\* C2: in every step the history is unchanged or is one new record followed
\* by the previous history.
C2_HistoryAppendOnly ==
  [][ \/ history' = history
      \/ /\ Len(history') = Len(history) + 1
         /\ Tail(history') = history ]_vars

C2_Witness ==
  /\ Len(history) = 2 /\ history[1].subject # history[2].subject
  /\ latestResult = NoRecord

\* C3: the status changes only along idle -> recording, result -> recording,
\* recording -> processing, processing -> result, recording -> idle and
\* processing -> idle.
StatusSteps ==
  { <<"idle", "recording">>, <<"result", "recording">>,
    <<"recording", "processing">>, <<"processing", "result">>,
    <<"recording", "idle">>, <<"processing", "idle">> }

C3_StatusTransitions ==
  [][ status' # status => <<status, status'>> \in StatusSteps ]_vars

C3_Witness ==
  /\ status = "idle" /\ error = GenericError /\ history # <<>>

\* C4: whenever the status is processing, it eventually becomes result or
\* idle, given that every remote call returns or fails and every pending
\* timer, event and device request is served.
C4_ProcessingEnds ==
  (status = "processing") ~> (status \in {"result", "idle"})

\* C5: whenever the status is processing, no stream is held.
C5_ProcessingReleasedDevice ==
  status = "processing" => streamRef = "null"

\* C6: whenever the status is idle or result, no stream is held and no
\* frame-sampling interval is active.
C6_IdleHoldsNothing ==
  status \in {"idle", "result"} =>
    streamRef = "null" /\ frameIntervalRef = "null"

\* C7: in video mode, once the device has been acquired (the frame-sampling
\* interval runs from that moment), the budget timer eventually fires and
\* then the recorder is stopped, the stream released and the interval
\* cleared, even if the user never presses stop.
C7_VideoCaptureEndsByTimer ==
  (frameIntervalRef = "active") ~>
    /\ frameIntervalRef = "null" /\ streamRef = "null"
    /\ mediaRecorderRef.state # "recording"

\* A step in which the user stops a recording while the budget timer of a
\* video cycle is pending (the timer's own step issues a call).
EarlyVideoStop ==
  /\ status = "recording" /\ status' = "processing"
  /\ timer /\ call' = NoCall

CredentialRejected(e) ==
  /\ e.isError
  /\ {e.message[i] : i \in DOMAIN e.message}
       \cap {"API key not valid", "API_KEY_INVALID"} # {}

AnalysisFailsWith(e) == AudioFail(e) \/ VideoFail(e) \/ VideoAudioFail(e)

\* C9: an analysis failure with an invalid-credential error removes the
\* stored credential, empties the credential in memory and opens the modal;
\* any other failure leaves all three as they are; both set an error message
\* and the status idle.
C9_CredentialErrorHandling ==
  [][ \A e \in Thrown :
        AnalysisFailsWith(e) =>
          /\ IF CredentialRejected(e)
               THEN storage' = NoItem /\ apiKey' = Empty /\ isApiKeyModalOpen'
               ELSE UNCHANGED <<storage, apiKey, isApiKeyModalOpen>>
          /\ error' # NoError
          /\ status' = "idle" ]_vars

C9_Witness ==
  /\ error = KeyError /\ status = "idle"
  /\ storage = NoItem /\ apiKey = Empty /\ isApiKeyModalOpen
  /\ history # <<>>

\* C10: without a credential the modal is open (and stays open until one is
\* saved) and no recording is initiated; saving a credential persists it,
\* closes the modal and lets the record button start a recording from idle
\* or result; every analysis request carries a non-empty credential.
C10_CredentialGatesRecording ==
  /\ [](loaded /\ apiKey = Empty => isApiKeyModalOpen)
  /\ [][ (status # "recording" /\ status' = "recording") => apiKey # Empty ]_vars
  /\ [][ (loaded /\ apiKey' # Empty /\ apiKey' # apiKey) =>
           /\ storage' = Item(apiKey') /\ ~isApiKeyModalOpen'
           /\ status' \in {"idle", "result"} => ButtonStarts' ]_vars
  /\ [](call # NoCall => call.apiKey # Empty)

C10_Witness ==
  /\ call # NoCall /\ call.apiKey = <<"b">>
  /\ storage = Item(<<"b">>) /\ ~isApiKeyModalOpen

\* C11: at most one analysis request is in flight at any time: while a call
\* is in flight the status is processing (the record button is disabled) and
\* no device request, budget timer or stop event that would issue another
\* call is pending; a call is issued only when none is in flight, or as the
\* audio call that follows the returned video call of the same cycle.
C11_OneRequestInFlight ==
  /\ [](call # NoCall =>
          /\ status = "processing"
          /\ ~gum /\ ~timer /\ ~stopEvent)
  /\ [][ (call' # NoCall /\ call' # call) =>
           \/ call = NoCall
           \/ /\ call.kind = "video" /\ call'.kind = "audio"
              /\ videoResult' # NoResult ]_vars

C11_Witness ==
  /\ call.kind = "audio" /\ closure.recordMode = "video"
  /\ videoResult # NoResult /\ recordMode = "audio"

\* C12: in a video-mode cycle the first call issued is the video call; the
\* audio call is issued only in the step in which the video call returns a
\* result; when the video call ends without a result the cycle is over with
\* no call in flight and nothing pending that could issue one.
C12_VideoThenAudio ==
  [][ /\ (closure.recordMode = "video" /\ call = NoCall /\ call' # NoCall) =>
           call'.kind = "video"
      /\ (closure.recordMode = "video" /\ call.kind # "audio"
            /\ call'.kind = "audio") =>
           /\ call.kind = "video"
           /\ videoResult = NoResult /\ videoResult' \in VideoResults
      /\ (call.kind = "video" /\ call' # call /\ videoResult' = NoResult) =>
           /\ call' = NoCall /\ closure' = NoClosure
           /\ ~gum' /\ ~timer' /\ ~stopEvent' ]_vars

C12_Witness ==
  /\ call.kind = "audio" /\ closure.recordMode = "video"
  /\ videoResult \in VideoResults /\ frames = "some"

\* C13: for every pair of sub-results, the record of a video-mode cycle has
\* the label of the audio result, the behavior of the video result and, as
\* its advice, the video advice followed by a space and the audio advice,
\* whichever of the two is the more confident; it is the record shown and
\* the first element of the history.
C13_MergeTakesAudioLabelVideoBehavior ==
  [][ \A a \in AudioInputs :
        VideoAudioReturn(a) =>
          /\ latestResult'.cryType = a.cryType
          /\ latestResult'.behavior = videoResult.behavior
          /\ latestResult'.suggestion =
                videoResult.suggestion \o <<" ">> \o a.suggestion
          /\ latestResult'.subject = closure.subject
          /\ Head(history') = latestResult' ]_vars

\* The video result was the more confident one (1 against 0.90), labelled
\* differently, and the audio result described a behavior of its own.
C13_Witness ==
  /\ status = "result"
  /\ latestResult.cryType = "Pain" /\ latestResult.behavior = "sucking fist"
  /\ latestResult.suggestion = <<"feed", " ", "check">>

\* C14: the confidence of the merged record is the arithmetic mean of the
\* audio and the video confidence, for all confidences in [0,1]; it lies in
\* [0,1] and between the two; 0.70 and 0.90 give 0.80.
C14_MergedConfidenceIsMean ==
  [][ \A a \in AudioInputs :
        VideoAudioReturn(a) =>
          LET v   == videoResult.confidence
              m   == latestResult'.confidence
              low == IF a.confidence < v THEN a.confidence ELSE v
              high == IF a.confidence < v THEN v ELSE a.confidence
          IN  /\ a.confidence \in ConfidenceRange /\ v \in ConfidenceRange
              /\ 2 * m = a.confidence + v
              /\ m \in ConfidenceRange
              /\ low <= m /\ m <= high
              /\ (a.confidence = 140 /\ v = 180) => m = 160 ]_vars

\* Audio 0.70 and video 0.90 were merged to 0.80.
C14_Witness ==
  /\ status = "result" /\ latestResult.confidence = 160
  /\ latestResult.cryType = "Hungry" /\ latestResult.behavior = "rubbing eyes"

\* A step in which a remote call fails.
CallFails == call # NoCall /\ call' = NoCall /\ error' # NoError

\* C15: the step in which a remote call fails ends its cycle: the status is
\* idle, no record is added or shown (also when the video call had returned
\* and the audio call fails: the video result is dropped), and no call,
\* timer, event or device request is left; an error message is set only in
\* the step that ends a cycle, so once per cycle; calls are issued only
\* inside a cycle, and a cycle begins only with a start of a recording.
C15_ErrorsAreTerminal ==
  /\ [][ CallFails =>
           /\ history' = history /\ latestResult' = NoRecord
           /\ status' = "idle"
           /\ closure' = NoClosure /\ videoResult' = NoResult
           /\ ~gum' /\ ~timer' /\ ~stopEvent' ]_vars
  /\ [][ \A e \in Thrown :
           VideoAudioFail(e) =>
             /\ videoResult \in VideoResults /\ CallFails
             /\ history' = history /\ latestResult' = NoRecord ]_vars
  /\ [][ (error' # error /\ error' # NoError) =>
           /\ status \in {"recording", "processing"} /\ status' = "idle"
           /\ closure' = NoClosure ]_vars
  /\ [](closure = NoClosure =>
          call = NoCall /\ ~gum /\ ~timer /\ ~stopEvent)
  /\ [][ (call = NoCall /\ call' # NoCall) => closure # NoClosure ]_vars
  /\ [][ (closure = NoClosure /\ closure' # NoClosure) =>
           /\ status' = "recording" /\ gum'
           /\ error' = NoError /\ latestResult' = NoRecord ]_vars

\* A video cycle failed on an invalid credential after an earlier cycle had
\* added a record: the record is still the only one and nothing is shown.
C15_Witness ==
  /\ status = "idle" /\ error = KeyError /\ closure = NoClosure
  /\ Len(history) = 1 /\ latestResult = NoRecord
  /\ recordMode = "video" /\ frames = "some" /\ call = NoCall

\* C16: when getUserMedia rejects, the status becomes idle with an error
\* message, no stream is held, no recorder records, no frame-sampling
\* interval and no budget timer is active, no remote call is in flight, and
\* the history and the stored credential are as before; also when stop was
\* pressed (status processing) before the rejection.
C16_DeviceFailureLeavesNothing ==
  [][ GumReject =>
        /\ status' = "idle" /\ error' = DeviceError
        /\ streamRef' = "null" /\ frameIntervalRef' = "null"
        /\ mediaRecorderRef'.state # "recording"
        /\ ~timer' /\ ~stopEvent' /\ call' = NoCall
        /\ history' = history /\ storage' = storage /\ apiKey' = apiKey ]_vars

\* C17: the subject a cycle works with is the subject selected in the step
\* that starts the recording and stays the same until the cycle ends,
\* whatever is selected meanwhile; every request of the cycle carries it and
\* the record the cycle adds has it.
C17_SubjectFixedAtStart ==
  /\ [][ (status # "recording" /\ status' = "recording") =>
           closure'.subject = subject /\ subject' = subject ]_vars
  /\ [][ (closure # NoClosure /\ closure' # NoClosure) =>
           closure'.subject = closure.subject ]_vars
  /\ [](call # NoCall => call.subject = closure.subject)
  /\ [][ history' # history =>
           /\ Head(history').subject = closure.subject
           /\ latestResult'.subject = closure.subject ]_vars

\* A record for Dog is shown while Cat is selected: the selection changed
\* after the recording had started (selecting clears the shown record).
C17_Witness ==
  /\ status = "result" /\ latestResult # NoRecord
  /\ latestResult.subject = "Dog" /\ subject = "Cat"
  /\ Head(history) = latestResult

\* C18: whenever an analysis failure with an invalid-credential error
\* removes the stored credential, the credential stored until then is the
\* one the failing request was sent with.
C18_RemovesOnlySentCredential ==
  [][ \A e \in Thrown :
        (AnalysisFailsWith(e) /\ CredentialRejected(e) /\ storage.present) =>
          storage.value = call.apiKey ]_vars

\* C19: a latest result that is not null is the first element of the
\* history; with the status result the history is not empty; selecting a
\* subject and starting a recording set the latest result to null and leave
\* the history as it is.
C19_LatestResultHeadsHistory ==
  /\ [](latestResult # NoRecord =>
          history # <<>> /\ Head(history) = latestResult)
  /\ [](status = "result" => history # <<>>)
  /\ [][ ((\E s \in Subjects : SelectSubject(s)) \/ StartRecording) =>
           latestResult' = NoRecord /\ history' = history ]_vars

\* A subject was selected while a result was shown: the result is gone, the
\* record is still in the history.
C19_Witness ==
  /\ status = "result" /\ latestResult = NoRecord
  /\ Len(history) = 1 /\ subject # Head(history).subject

\* C20: once the startup effect has run, the credential in memory is the
\* stored one, and is empty exactly when none is stored; a stored credential
\* is never empty and has no whitespace at either end.
C20_MemoryMatchesStorage ==
  /\ loaded =>
       /\ storage.present => apiKey = storage.value
       /\ apiKey = Empty <=> ~storage.present
  /\ storage.present =>
       /\ storage.value # Empty /\ Trim(storage.value) # Empty
       /\ Trim(storage.value) = storage.value

\* The credential b was saved in this session and a cycle failed for another
\* reason afterwards.
C20_Witness ==
  /\ loaded /\ storage = Item(<<"b">>) /\ apiKey = <<"b">>
  /\ status = "idle" /\ error = GenericError /\ Len(history) = 1

====
